---- MODULE Spec2Model ----
(***************************************************************************)
(* Four independent leaves of the application, each with its own           *)
(* specification over the shared variables:                                *)
(*   SpecApm     getApmEventClient (request-scoped client assembly)        *)
(*   SpecRest    the alert REST wrappers (alerts/api.ts)                   *)
(*   SpecThreat  ThreatMatchInput (threatmatch_input/index.tsx)            *)
(*   SpecSchema  the lifecycle-policy form schema (getSchema)              *)
(* A JavaScript value is a record [kind, owner]: a primitive or a module-  *)
(* level object has owner 0, an object that belongs to one invocation (an  *)
(* argument, or the answer to one of its calls) has that invocation as its *)
(* owner, so values of different JavaScript types can be compared.         *)
(***************************************************************************)
EXTENDS Integers, Sequences, FiniteSets, TLC

VARIABLES
    apm,    \* getApmEventClient: the state of each invocation
    rest,   \* alert REST wrappers: the state of each call
    tm,     \* ThreatMatchInput: props, state and effect of the component
    form    \* lifecycle-policy form: the schema in use and its validation

vars == <<apm, rest, tm, form>>

\* what each component leaves alone
NotApm == <<rest, tm, form>>
NotRest == <<apm, tm, form>>
NotThreat == <<apm, rest, form>>
NotSchema == <<apm, rest, tm>>

Ref(kind, owner) == [kind |-> kind, owner |-> owner]
Prim(kind) == Ref(kind, 0)
Undefined == Prim("undefined")
JsBooleans == {Prim("true"), Prim("false")}

(***************************************************************************)
(* getApmEventClient                                                       *)
(***************************************************************************)

\* number of getApmEventClient invocations in flight (one request each)
NumInvocations == 2

Invocations == 1..NumInvocations

\* what the ambient services answer to invocation i: getApmIndices() an
\* indices object, the excluded-data-tiers setting an array, each the answer
\* to that invocation's own call; the include-frozen setting a boolean
IndicesValue(i) == Ref("indices", i)
DataTiersValue(i) == Ref("excludedDataTiers", i)

\* a promise: st is "none" (not created), "pending", "resolved" or "rejected"
NotStarted == [st |-> "none", val |-> Undefined]
Pending == [st |-> "pending", val |-> Undefined]
Resolved(v) == [st |-> "resolved", val |-> v]
Rejected(e) == [st |-> "rejected", val |-> e]

\* the module-level map imported from register_apm_server_routes
inspectableEsQueriesMap == Ref("inspectableEsQueriesMap", 0)

\* the arguments of invocation i: its own context and its own request
context(i) == [core |-> Ref("coreContext", i),
               esClient |-> Ref("asCurrentUser", i)]
request(i) == Ref("request", i)

\* faulty variant of PromiseAll: Promise.allSettled: waits for both, never rejects
PromiseAllSettled(prev, indices, uiSettings) ==
    IF prev.st # "pending" THEN prev
    ELSE IF indices.st \in {"resolved", "rejected"}
            /\ uiSettings.st \in {"resolved", "rejected"}
         THEN Resolved(Prim("[indices, uiSettings]"))
    ELSE prev

\* Promise.all([getApmIndices(), withApmSpan('get_ui_settings', ...)]):
\* rejects with the first rejection, resolves when both have resolved
PromiseAll(prev, indices, uiSettings) ==
    IF prev.st # "pending" THEN prev
    ELSE IF indices.st = "rejected" THEN Rejected(indices.val)
    ELSE IF uiSettings.st = "rejected" THEN Rejected(uiSettings.val)
    ELSE IF indices.st = "resolved" /\ uiSettings.st = "resolved"
         THEN Resolved(Prim("[indices, uiSettings]"))
    ELSE prev

\* faulty variant of APMEventClient: every client is given one module-level
\* Elasticsearch client instead of its own context's current-user client
APMEventClientSharedEsClient(i, r) ==
    [esClient |-> Ref("asCurrentUser", 0),
     debug |-> r.debug,
     request |-> request(i),
     indices |-> r.indices.val,
     options |-> [includeFrozen |-> r.includeFrozen.val,
                  excludedDataTiers |-> r.excludedDataTiers.val,
                  inspectableEsQueriesMap |-> inspectableEsQueriesMap]]

\* faulty variant of APMEventClient: indices and uiSettings are kept in
\* variables shared by all invocations, which hold what the first invocation's
\* lookups have returned so far
APMEventClientSharedLookups(i, r) ==
    [esClient |-> context(i).esClient,
     debug |-> r.debug,
     request |-> request(i),
     indices |-> apm[1].indices.val,
     options |-> [includeFrozen |-> apm[1].includeFrozen.val,
                  excludedDataTiers |-> apm[1].excludedDataTiers.val,
                  inspectableEsQueriesMap |-> inspectableEsQueriesMap]]

\* new APMEventClient({...}) as built by invocation i from its state r
APMEventClient(i, r) ==
    [esClient |-> context(i).esClient,
     debug |-> r.debug,
     request |-> request(i),
     indices |-> r.indices.val,
     options |-> [includeFrozen |-> r.includeFrozen.val,
                  excludedDataTiers |-> r.excludedDataTiers.val,
                  inspectableEsQueriesMap |-> inspectableEsQueriesMap]]

\* faulty variant of JoinResolved: the continuation waits for getApmIndices() only
JoinResolvedIndicesOnly(r) == r.pc = "awaitAll" /\ r.indices.st = "resolved"

\* the continuation after `await Promise.all(...)` may run and build the client
JoinResolved(r) == r.pc = "awaitAll" /\ r.all.st = "resolved"

\* the continuation after `await Promise.all(...)` throws the join's rejection
JoinRejected(r) == r.pc = "awaitAll" /\ r.all.st = "rejected"

\* settled: the two joined promises, in the order in which they settled;
\* calls: how many times each lookup has been issued
ApmIdle ==
    [pc |-> "idle", debug |-> Undefined,
     core |-> NotStarted, indices |-> NotStarted,
     includeFrozen |-> NotStarted, excludedDataTiers |-> NotStarted,
     uiSettings |-> NotStarted, all |-> NotStarted,
     result |-> NotStarted, client |-> <<>>, settled |-> <<>>,
     calls |-> [core |-> 0, indices |-> 0, includeFrozen |-> 0,
                excludedDataTiers |-> 0]]

ApmInit == apm = [i \in Invocations |-> ApmIdle]

\* getApmEventClient({context, params, getApmIndices, request}) is called:
\* withApmSpan runs the callback up to `await context.core`
getApmEventClient(i, inspect) ==
    /\ apm[i].pc = "idle"
    /\ apm' = [apm EXCEPT ![i] =
                 [@ EXCEPT !.pc = "awaitCore", !.debug = inspect,
                           !.core = Pending, !.result = Pending,
                           !.calls.core = @ + 1]]
    /\ UNCHANGED NotApm

\* faulty variant of CoreResolved: the span issues both settings lookups at once
CoreResolvedBothSettings(i) ==
    /\ apm[i].pc = "awaitCore"
    /\ apm' = [apm EXCEPT ![i] =
                 [@ EXCEPT !.pc = "awaitAll",
                           !.core = Resolved(context(i).core),
                           !.indices = Pending,
                           !.includeFrozen = Pending,
                           !.excludedDataTiers = Pending,
                           !.uiSettings = Pending,
                           !.all = Pending,
                           !.calls.indices = @ + 1,
                           !.calls.includeFrozen = @ + 1,
                           !.calls.excludedDataTiers = @ + 1]]
    /\ UNCHANGED NotApm

\* context.core resolves: getApmIndices() and the get_ui_settings span are
\* started together; the span runs up to its first await (includeFrozen)
CoreResolved(i) ==
    /\ apm[i].pc = "awaitCore"
    /\ apm' = [apm EXCEPT ![i] =
                 [@ EXCEPT !.pc = "awaitAll",
                           !.core = Resolved(context(i).core),
                           !.indices = Pending,
                           !.includeFrozen = Pending,
                           !.uiSettings = Pending,
                           !.all = Pending,
                           !.calls.indices = @ + 1,
                           !.calls.includeFrozen = @ + 1]]
    /\ UNCHANGED NotApm

\* context.core rejects: the await throws, the function rejects
CoreRejected(i) ==
    /\ apm[i].pc = "awaitCore"
    /\ apm' = [apm EXCEPT ![i] =
                 [@ EXCEPT !.pc = "done",
                           !.core = Rejected(Ref("errCore", i)),
                           !.result = Rejected(Ref("errCore", i))]]
    /\ UNCHANGED NotApm

\* getApmIndices() settles
IndicesSettled(i, outcome) ==
    /\ apm[i].indices.st = "pending"
    /\ apm' = [apm EXCEPT ![i] =
                 [@ EXCEPT !.indices = outcome,
                           !.all = PromiseAll(@, outcome, apm[i].uiSettings),
                           !.settled = Append(@, "indices")]]
    /\ UNCHANGED NotApm

\* uiSettings.client.get(SEARCH_INCLUDE_FROZEN) resolves: the span goes on to
\* its second await and only now starts the excluded-data-tiers lookup
IncludeFrozenResolved(i, v) ==
    /\ apm[i].includeFrozen.st = "pending"
    /\ apm' = [apm EXCEPT ![i] =
                 [@ EXCEPT !.includeFrozen = Resolved(v),
                           !.excludedDataTiers = Pending,
                           !.calls.excludedDataTiers = @ + 1]]
    /\ UNCHANGED NotApm

\* uiSettings.client.get(SEARCH_INCLUDE_FROZEN) rejects: the span rejects
IncludeFrozenRejected(i) ==
    /\ apm[i].includeFrozen.st = "pending"
    /\ apm' = [apm EXCEPT ![i] =
                 [@ EXCEPT !.includeFrozen = Rejected(Ref("errIncludeFrozen", i)),
                           !.uiSettings = Rejected(Ref("errIncludeFrozen", i)),
                           !.all = PromiseAll(@, apm[i].indices,
                                              Rejected(Ref("errIncludeFrozen", i))),
                           !.settled = Append(@, "uiSettings")]]
    /\ UNCHANGED NotApm

\* uiSettings.client.get(searchExcludedDataTiers) settles: the span settles
ExcludedDataTiersSettled(i, outcome) ==
    /\ apm[i].excludedDataTiers.st = "pending"
    /\ LET span == IF outcome.st = "resolved"
                   THEN Resolved(Prim("{includeFrozen, excludedDataTiers}"))
                   ELSE outcome
       IN apm' = [apm EXCEPT ![i] =
                 [@ EXCEPT !.excludedDataTiers = outcome,
                           !.uiSettings = span,
                           !.all = PromiseAll(@, apm[i].indices, span),
                           !.settled = Append(@, "uiSettings")]]
    /\ UNCHANGED NotApm

\* the continuation after the join: return new APMEventClient({...})
ConstructClient(i) ==
    /\ JoinResolved(apm[i])
    /\ apm' = [apm EXCEPT ![i] =
                 [@ EXCEPT !.pc = "done",
                           !.client = <<APMEventClient(i, apm[i])>>,
                           !.result = Resolved(Prim("APMEventClient"))]]
    /\ UNCHANGED NotApm

\* the continuation after the join when Promise.all rejected
RejectFromJoin(i) ==
    /\ JoinRejected(apm[i])
    /\ apm' = [apm EXCEPT ![i] =
                 [@ EXCEPT !.pc = "done",
                           !.result = Rejected(apm[i].all.val)]]
    /\ UNCHANGED NotApm

ApmNext ==
    \E i \in Invocations :
        \/ \E inspect \in JsBooleans : getApmEventClient(i, inspect)
        \/ CoreResolved(i)
        \/ CoreRejected(i)
        \/ IndicesSettled(i, Resolved(IndicesValue(i)))
        \/ IndicesSettled(i, Rejected(Ref("errIndices", i)))
        \/ \E v \in JsBooleans : IncludeFrozenResolved(i, v)
        \/ IncludeFrozenRejected(i)
        \/ ExcludedDataTiersSettled(i, Resolved(DataTiersValue(i)))
        \/ ExcludedDataTiersSettled(i, Rejected(Ref("errExcludedDataTiers", i)))
        \/ ConstructClient(i)
        \/ RejectFromJoin(i)

(***************************************************************************)
(* Alert REST wrappers (alerts/api.ts)                                     *)
(***************************************************************************)

\* number of wrapper calls that can be in flight together
MaxRestCalls == 2

RestCalls == 1..MaxRestCalls

\* JavaScript arrays, object literals ({k1: v1, ...}, members in source order)
\* and strings
Array(items) == [kind |-> "array", owner |-> 0, items |-> items]
Object(members) == [kind |-> "object", owner |-> 0, members |-> members]
Member(key, value) == [key |-> key, value |-> value]
Keys(obj) == [n \in 1..Len(obj.members) |-> obj.members[n].key]
KeySet(obj) == {obj.members[n].key : n \in 1..Len(obj.members)}
GetValue(obj, key) ==
    obj.members[CHOOSE n \in 1..Len(obj.members) : obj.members[n].key = key].value

\* JSON.stringify(value): undefined stays undefined, an object literal is
\* written without the members whose value is undefined
JSONstringify(v) ==
    IF v.kind = "undefined" THEN v
    ELSE IF v.kind = "object"
         THEN [kind |-> "json", owner |-> 0,
               of |-> Object(SelectSeq(v.members,
                                       LAMBDA m : m.value.kind # "undefined"))]
    ELSE [kind |-> "json", owner |-> 0, of |-> v]

\* a request path: a route constant, or a route with one variable filled in
Route(name) == [route |-> name, param |-> Undefined]
getCasesFromAlertsUrl(alertId) ==
    [route |-> "getCasesFromAlertsUrl", param |-> alertId]
resolvePathVariables(route, id) == [route |-> route, param |-> id]

\* the arguments of KibanaServices.get().http.fetch(path, options)
Fetch(path, options) == [path |-> path, options |-> options]

fetchQueryAlerts(a) ==
    Fetch(Route("DETECTION_ENGINE_QUERY_SIGNALS_URL"),
          [version |-> "2023-10-31", method |-> "POST",
           body |-> JSONstringify(a.query), signal |-> a.signal])

fetchQueryRuleRegistryAlerts(a) ==
    Fetch(Route("ALERTS_AS_DATA_FIND_URL"),
          [method |-> "POST", body |-> JSONstringify(a.query),
           signal |-> a.signal])

updateAlertStatusByQuery(a) ==
    Fetch(Route("DETECTION_ENGINE_SIGNALS_STATUS_URL"),
          [version |-> "2023-10-31", method |-> "POST",
           body |-> JSONstringify(Object(<<Member("conflicts", Prim("proceed")),
                                           Member("status", a.status),
                                           Member("query", a.query)>>)),
           signal |-> a.signal])

\* faulty variant of updateAlertStatusByIds: the by-query body shape copied over
updateAlertStatusByIdsWithConflicts(a) ==
    Fetch(Route("DETECTION_ENGINE_SIGNALS_STATUS_URL"),
          [version |-> "2023-10-31", method |-> "POST",
           body |-> JSONstringify(Object(<<Member("conflicts", Prim("proceed")),
                                           Member("status", a.status),
                                           Member("signal_ids", a.signalIds)>>)),
           signal |-> a.signal])

updateAlertStatusByIds(a) ==
    Fetch(Route("DETECTION_ENGINE_SIGNALS_STATUS_URL"),
          [version |-> "2023-10-31", method |-> "POST",
           body |-> JSONstringify(Object(<<Member("status", a.status),
                                           Member("signal_ids", a.signalIds)>>)),
           signal |-> a.signal])

getSignalIndex(a) ==
    Fetch(Route("DETECTION_ENGINE_INDEX_URL"),
          [version |-> "2023-10-31", method |-> "GET", signal |-> a.signal])

checkSignalIndex(a) ==
    Fetch(Route("DETECTION_ENGINE_ALERTS_INDEX_URL"),
          [version |-> "1", method |-> "GET", signal |-> a.signal])

getUserPrivilege(a) ==
    Fetch(Route("DETECTION_ENGINE_PRIVILEGES_URL"),
          [version |-> "2023-10-31", method |-> "GET", signal |-> a.signal])

createSignalIndex(a) ==
    Fetch(Route("DETECTION_ENGINE_INDEX_URL"),
          [version |-> "2023-10-31", method |-> "POST", signal |-> a.signal])

\* faulty variant of getCaseIdsFromAlertId: the owner filter is always sent
getCaseIdsFromAlertIdAlwaysOwner(a) ==
    Fetch(getCasesFromAlertsUrl(a.alertId),
          [method |-> "get", query |-> Object(<<Member("owner", a.owner)>>)])

getCaseIdsFromAlertId(a) ==
    Fetch(getCasesFromAlertsUrl(a.alertId),
          [method |-> "get",
           query |-> Object(IF Len(a.owner.items) > 0
                            THEN <<Member("owner", a.owner)>>
                            ELSE <<>>)])

\* faulty variant of getHostMetadata: the caller's signal is not passed on
getHostMetadataNoSignal(a) ==
    Fetch(resolvePathVariables("HOST_METADATA_GET_ROUTE", a.agentId),
          [method |-> "GET", signal |-> Undefined, version |-> "2023-10-31"])

getHostMetadata(a) ==
    Fetch(resolvePathVariables("HOST_METADATA_GET_ROUTE", a.agentId),
          [method |-> "GET", signal |-> a.signal, version |-> "2023-10-31"])

\* the exported wrappers that call http.fetch, and those that take a signal
Wrappers ==
    {"fetchQueryAlerts", "fetchQueryRuleRegistryAlerts",
     "updateAlertStatusByQuery", "updateAlertStatusByIds", "getSignalIndex",
     "checkSignalIndex", "getUserPrivilege", "createSignalIndex",
     "getCaseIdsFromAlertId", "getHostMetadata"}
SignalWrappers == Wrappers \ {"getCaseIdsFromAlertId"}

\* the http.fetch call that wrapper fn makes for arguments a
WrapperFetch(fn, a) ==
    CASE fn = "fetchQueryAlerts" -> fetchQueryAlerts(a)
      [] fn = "fetchQueryRuleRegistryAlerts" -> fetchQueryRuleRegistryAlerts(a)
      [] fn = "updateAlertStatusByQuery" -> updateAlertStatusByQuery(a)
      [] fn = "updateAlertStatusByIds" -> updateAlertStatusByIds(a)
      [] fn = "getSignalIndex" -> getSignalIndex(a)
      [] fn = "checkSignalIndex" -> checkSignalIndex(a)
      [] fn = "getUserPrivilege" -> getUserPrivilege(a)
      [] fn = "createSignalIndex" -> createSignalIndex(a)
      [] fn = "getCaseIdsFromAlertId" -> getCaseIdsFromAlertId(a)
      [] fn = "getHostMetadata" -> getHostMetadata(a)

\* faulty variant of AsyncReturn: a try/catch that swallows the transport's rejection
AsyncReturnCatch(p) == IF p.st = "rejected" THEN Resolved(Undefined) ELSE p

\* an async function that returns the transport's promise settles as it does
AsyncReturn(p) == p

\* the arguments a caller may pass in call k
Statuses == {Prim("open"), Prim("closed"), Prim("acknowledged")}
SignalIdLists == {Array(<<"id1">>), Array(<<"id2", "id1">>)}
OwnerLists == {Array(<<>>), Array(<<"securitySolution">>),
               Array(<<"securitySolution", "observability">>)}
SignalsOf(k) == {Undefined, Ref("AbortSignal", k)}
ArgsOf(fn, k) ==
    CASE fn \in {"fetchQueryAlerts", "fetchQueryRuleRegistryAlerts"} ->
            {[query |-> Ref("query", k), signal |-> sg] : sg \in SignalsOf(k)}
      [] fn = "updateAlertStatusByQuery" ->
            {[query |-> Ref("query", k), status |-> st, signal |-> sg] :
                st \in Statuses, sg \in SignalsOf(k)}
      [] fn = "updateAlertStatusByIds" ->
            {[signalIds |-> ids, status |-> st, signal |-> sg] :
                ids \in SignalIdLists, st \in Statuses, sg \in SignalsOf(k)}
      [] fn \in {"getSignalIndex", "checkSignalIndex", "getUserPrivilege",
                 "createSignalIndex"} ->
            {[signal |-> sg] : sg \in SignalsOf(k)}
      [] fn = "getCaseIdsFromAlertId" ->
            {[alertId |-> Ref("alertId", k), owner |-> o] : o \in OwnerLists}
      [] fn = "getHostMetadata" ->
            {[agentId |-> Ref("agentId", k), signal |-> sg] :
                sg \in SignalsOf(k)}

\* fetches: the http.fetch calls made so far; transport: the promise http.fetch
\* returned; result: the promise the wrapper returned; aborted: whether the
\* caller has aborted the signal it passed
RestIdle ==
    [fn |-> "none", args |-> [signal |-> Undefined], st |-> "idle",
     fetches |-> <<>>, transport |-> NotStarted, result |-> NotStarted,
     aborted |-> FALSE]

RestInit == rest = [k \in RestCalls |-> RestIdle]

\* a wrapper is called: it makes its http.fetch call and returns its promise
CallWrapper(k, fn, a) ==
    /\ rest[k].st = "idle"
    /\ rest' = [rest EXCEPT ![k] =
                  [@ EXCEPT !.fn = fn, !.args = a, !.st = "pending",
                            !.fetches = Append(@, WrapperFetch(fn, a)),
                            !.transport = Pending,
                            !.result = AsyncReturn(Pending)]]
    /\ UNCHANGED NotRest

\* the caller aborts the signal it passed to call k
CallerAborts(k) ==
    /\ rest[k].st = "pending"
    /\ rest[k].fn \in SignalWrappers
    /\ rest[k].args.signal.kind = "AbortSignal"
    /\ ~rest[k].aborted
    /\ rest' = [rest EXCEPT ![k] = [@ EXCEPT !.aborted = TRUE]]
    /\ UNCHANGED NotRest

\* the signal the transport was handed for the request is the caller's
\* signal of call k, and it has been aborted
TransportSeesAbort(k) ==
    LET options == rest[k].fetches[1].options
    IN /\ "signal" \in DOMAIN options
       /\ options.signal.kind = "AbortSignal"
       /\ rest[k].fn \in SignalWrappers
       /\ options.signal = rest[k].args.signal
       /\ rest[k].aborted

\* the transport settles the request: a response, or a failure (a request
\* whose signal has been aborted can only end as in TransportAborts)
TransportSettles(k, outcome) ==
    /\ rest[k].st = "pending"
    /\ ~TransportSeesAbort(k)
    /\ rest' = [rest EXCEPT ![k] =
                  [@ EXCEPT !.st = "settled", !.transport = outcome,
                            !.result = AsyncReturn(outcome)]]
    /\ UNCHANGED NotRest

\* the transport honours the abort of the signal it was handed
TransportAborts(k) ==
    /\ rest[k].st = "pending"
    /\ TransportSeesAbort(k)
    /\ rest' = [rest EXCEPT ![k] =
                  [@ EXCEPT !.st = "settled",
                            !.transport = Rejected(Prim("AbortError")),
                            !.result = AsyncReturn(Rejected(Prim("AbortError")))]]
    /\ UNCHANGED NotRest

RestNext ==
    \E k \in RestCalls :
        \/ \E fn \in Wrappers : \E a \in ArgsOf(fn, k) : CallWrapper(k, fn, a)
        \/ TransportSettles(k, Resolved(Ref("response", k)))
        \/ TransportSettles(k, Rejected(Ref("error", k)))
        \/ CallerAborts(k)
        \/ TransportAborts(k)

(***************************************************************************)
(* ThreatMatchInput (threatmatch_input/index.tsx)                          *)
(***************************************************************************)

\* the values the parent may pass as the onValidityChange prop
Callbacks == {Undefined, Ref("onValidityChange", 1), Ref("onValidityChange", 2)}

\* faulty variant of ValidityEffect: only the query bar's validity is forwarded
ValidityEffectQueryBarOnly(r) ==
    IF r.onValidityChange.kind # "undefined"
    THEN <<[cb |-> r.onValidityChange, value |-> r.isThreatIndexPatternValid]>>
    ELSE <<>>

\* the body of the useEffect, run for the values of render r: the calls it makes
ValidityEffect(r) ==
    IF r.onValidityChange.kind # "undefined"
    THEN <<[cb |-> r.onValidityChange,
            value |-> ~r.isThreatMappingInvalid /\ r.isThreatIndexPatternValid]>>
    ELSE <<>>

\* the dependency list of the useEffect for the values of render r
EffectDeps(r) ==
    <<r.isThreatIndexPatternValid, r.isThreatMappingInvalid, r.onValidityChange>>

\* what the next render will see: the threat-mapping field's validity, the
\* state last set through setIsThreatIndexPatternValid, the parent's prop
Current ==
    [isThreatMappingInvalid |-> tm.fieldInvalid,
     isThreatIndexPatternValid |-> tm.state,
     onValidityChange |-> tm.prop]

\* fieldInvalid: getFieldValidityAndErrorMessage(threatMapping).isInvalid now;
\* prop: the onValidityChange prop now; state: isThreatIndexPatternValid as
\* last set; rendered: the values of the last render; effectPending: the
\* effect of the last render has not run yet; lastCall: the last call of
\* onValidityChange; everProvided, reportedTrue: history
ThreatInit ==
    tm = [mounted |-> FALSE, fieldInvalid |-> FALSE, prop |-> Undefined,
          state |-> FALSE,
          rendered |-> [isThreatMappingInvalid |-> FALSE,
                        isThreatIndexPatternValid |-> FALSE,
                        onValidityChange |-> Undefined],
          effectPending |-> FALSE, lastCall |-> <<>>,
          everProvided |-> FALSE, reportedTrue |-> FALSE]

\* faulty variant of Mount: the query bar is counted as valid from the start,
\* useState(true)
MountQueryBarValid(invalid, cb) ==
    /\ ~tm.mounted
    /\ tm' = [tm EXCEPT !.mounted = TRUE, !.fieldInvalid = invalid,
                        !.prop = cb, !.state = TRUE,
                        !.rendered = [isThreatMappingInvalid |-> invalid,
                                      isThreatIndexPatternValid |-> TRUE,
                                      onValidityChange |-> cb],
                        !.effectPending = TRUE,
                        !.everProvided = (cb.kind # "undefined")]
    /\ UNCHANGED NotThreat

\* the component is mounted: useState(false), first render, effect scheduled
Mount(invalid, cb) ==
    /\ ~tm.mounted
    /\ tm' = [tm EXCEPT !.mounted = TRUE, !.fieldInvalid = invalid,
                        !.prop = cb, !.state = FALSE,
                        !.rendered = [isThreatMappingInvalid |-> invalid,
                                      isThreatIndexPatternValid |-> FALSE,
                                      onValidityChange |-> cb],
                        !.effectPending = TRUE,
                        !.everProvided = (cb.kind # "undefined")]
    /\ UNCHANGED NotThreat

\* the threat-mapping field becomes valid or invalid
ThreatMappingValidityChanges ==
    /\ tm.mounted
    /\ tm' = [tm EXCEPT !.fieldInvalid = ~@]
    /\ UNCHANGED NotThreat

\* the threat query bar calls its onValidityChange, setIsThreatIndexPatternValid
setIsThreatIndexPatternValid(v) ==
    /\ tm.mounted
    /\ tm' = [tm EXCEPT !.state = v, !.reportedTrue = @ \/ v]
    /\ UNCHANGED NotThreat

\* the parent passes another onValidityChange
ParentPassesCallback(cb) ==
    /\ tm.mounted
    /\ cb # tm.prop
    /\ tm' = [tm EXCEPT !.prop = cb,
                        !.everProvided = @ \/ cb.kind # "undefined"]
    /\ UNCHANGED NotThreat

\* the component renders again (pending effects are flushed before a render);
\* the effect is scheduled when a dependency differs from the last render's
Render ==
    /\ tm.mounted
    /\ ~tm.effectPending
    /\ Current # tm.rendered
    /\ tm' = [tm EXCEPT !.rendered = Current,
                        !.effectPending =
                            (EffectDeps(Current) # EffectDeps(tm.rendered))]
    /\ UNCHANGED NotThreat

\* the scheduled effect runs with the values of the last render
RunEffect ==
    /\ tm.effectPending
    /\ tm' = [tm EXCEPT !.effectPending = FALSE,
                        !.lastCall = IF ValidityEffect(tm.rendered) = <<>>
                                     THEN @ ELSE ValidityEffect(tm.rendered)]
    /\ UNCHANGED NotThreat

ThreatNext ==
    \/ \E invalid \in BOOLEAN, cb \in Callbacks : Mount(invalid, cb)
    \/ ThreatMappingValidityChanges
    \/ \E v \in BOOLEAN : setIsThreatIndexPatternValid(v)
    \/ \E cb \in Callbacks : ParentPassesCallback(cb)
    \/ Render
    \/ RunEffect

(***************************************************************************)
(* Lifecycle-policy form schema (getSchema)                                *)
(***************************************************************************)

\* A field path such as 'phases.warm.min_age' is the sequence of its segments.
\* Validators are named after the functions the schema calls to build them.
Validator(name, arg) == [validator |-> name, arg |-> arg]

\* A label is the i18nTexts entry or the i18n.translate message id that
\* produces it; a serializer is held by reference, under its name.
stringToNumber == "serializers.stringToNumber"

\* Object.values(ROLLOVER_FORM_PATHS), computed once when the module loads
rolloverFormPaths == Prim("Object.values(ROLLOVER_FORM_PATHS)")

\* the repository name that getSchema defaults to on Cloud
CLOUD_DEFAULT_REPO == Prim("CLOUD_DEFAULT_REPO")

maxNumSegmentsField ==
    [label |-> "i18nTexts.editPolicy.maxNumSegmentsFieldLabel",
     validations |-> <<Validator("emptyField", "numberOfSegmentsRequiredError"),
                       Validator("ifExistsNumberGreaterThanZero", "")>>,
     serializer |-> stringToNumber]

searchableSnapshotFields ==
    [snapshot_repository |->
        [label |-> "i18nTexts.editPolicy.searchableSnapshotsRepoFieldLabel",
         validations |-> <<Validator("emptyField",
                                     "searchableSnapshotRepoRequired")>>,
         helpText |-> "searchableSnapshot.repositoryHelpText"],
     storage |->
        [label |-> "searchableSnapshot.storageLabel",
         helpText |-> "searchableSnapshot.storageHelpText"]]

numberOfReplicasField ==
    [label |-> "i18nTexts.editPolicy.numberOfReplicasLabel",
     validations |-> <<Validator("emptyField", "numberRequired"),
                       Validator("ifExistsNumberNonNegative", "")>>,
     serializer |-> stringToNumber]

numberOfShardsField ==
    [label |-> "i18nTexts.editPolicy.shrinkNumberOfShardsLabel",
     defaultValue |-> Prim("1"),
     validations |-> <<Validator("emptyField", "numberRequired"),
                       Validator("numberGreaterThanField",
                                 "numberGreatThan0Required, than: 0")>>,
     serializer |-> stringToNumber]

shardSizeField ==
    [label |-> "i18nTexts.editPolicy.maxPrimaryShardSizeLabel",
     validations |-> <<Validator("emptyField", "numberRequired"),
                       Validator("numberGreaterThanField",
                                 "numberGreatThan0Required, than: 0")>>,
     serializer |-> stringToNumber]

allowWriteAfterShrinkField ==
    [label |-> "i18nTexts.editPolicy.allowWriteAfterShrinkLabel",
     defaultValue |-> Prim("false")]

\* defaultValue: defaultIndexPriority[phase]
getPriorityField(phase) ==
    [defaultValue |-> [kind |-> "defaultIndexPriority[phase]", owner |-> 0,
                       phase |-> phase],
     label |-> "i18nTexts.editPolicy.indexPriorityFieldLabel",
     validations |-> <<Validator("emptyField", "numberRequired"),
                       Validator("ifExistsNumberNonNegative", "")>>,
     serializer |-> stringToNumber]

\* faulty variant of getMinAgeField: a change of the field validates the field
\* itself
getMinAgeFieldValidatesItself(phase, defaultValue) ==
    [defaultValue |-> defaultValue,
     fieldsToValidateOnChange |-> <<<<"phases", phase, "min_age">>>>,
     validations |-> <<Validator("emptyField", "numberRequired"),
                       Validator("ifExistsNumberNonNegative", ""),
                       Validator("isInteger", "integerRequired"),
                       Validator("minAgeGreaterThanPreviousPhase", phase)>>]

\* faulty variant of getMinAgeField: the cross-phase validator runs first
getMinAgeFieldCrossPhaseFirst(phase, defaultValue) ==
    [defaultValue |-> defaultValue,
     fieldsToValidateOnChange |-> <<>>,
     validations |-> <<Validator("minAgeGreaterThanPreviousPhase", phase),
                       Validator("emptyField", "numberRequired"),
                       Validator("ifExistsNumberNonNegative", ""),
                       Validator("isInteger", "integerRequired")>>]

getMinAgeField(phase, defaultValue) ==
    [defaultValue |-> defaultValue,
     fieldsToValidateOnChange |-> <<>>,
     validations |-> <<Validator("emptyField", "numberRequired"),
                       Validator("ifExistsNumberNonNegative", ""),
                       Validator("isInteger", "integerRequired"),
                       Validator("minAgeGreaterThanPreviousPhase", phase)>>]

\* faulty variant of getDownsampleFieldsToValidateOnChange: the slice always
\* starts at the current phase, whatever includeCurrentPhase is
getDownsampleFieldsAlwaysCurrentPhase(p, includeCurrentPhase) ==
    LET allPhases == <<"hot", "warm", "cold">>
        indexOf == CHOOSE n \in 1..Len(allPhases) : allPhases[n] = p
    IN [n \in 1..(Len(allPhases) - indexOf + 1) |->
           <<"_meta", allPhases[indexOf + n - 1], "downsample",
             "fixedIntervalSize">>]

\* allPhases.slice(allPhases.indexOf(currentPhase) + (includeCurrentPhase ? 0 : 1))
\*          .map(getIntervalSizePath)
getDownsampleFieldsToValidateOnChange(p, includeCurrentPhase) ==
    LET allPhases == <<"hot", "warm", "cold">>
        getIntervalSizePath(currentPhase) ==
            <<"_meta", currentPhase, "downsample", "fixedIntervalSize">>
        indexOf == CHOOSE n \in 1..Len(allPhases) : allPhases[n] = p
        from == indexOf + (IF includeCurrentPhase THEN 0 ELSE 1)
        omitPreviousPhases == SubSeq(allPhases, from, Len(allPhases))
    IN [n \in 1..Len(omitPreviousPhases) |->
           getIntervalSizePath(omitPreviousPhases[n])]

getDownsampleSchema(phase) ==
    [enabled |->
        [defaultValue |-> Prim("false"),
         label |-> "i18nTexts.editPolicy.downsampleEnabledFieldLabel",
         fieldsToValidateOnChange |->
             getDownsampleFieldsToValidateOnChange(phase, FALSE)],
     fixedIntervalSize |->
        [label |-> "i18nTexts.editPolicy.downsampleIntervalFieldLabel",
         fieldsToValidateOnChange |->
             getDownsampleFieldsToValidateOnChange(phase, TRUE),
         validations |-> <<Validator("emptyField", "numberRequired"),
                           Validator("ifExistsNumberGreaterThanZero", ""),
                           Validator("isInteger", "integerRequired"),
                           Validator("downsampleIntervalMultipleOfPreviousOne",
                                     phase)>>],
     fixedIntervalUnits |->
        [defaultValue |-> Prim("'d'"),
         fieldsToValidateOnChange |->
             getDownsampleFieldsToValidateOnChange(phase, TRUE)]]

\* _meta.<phase>.minAgeToMilliSeconds, as written out for each phase
warmMinAgeToMilliSeconds ==
    [defaultValue |-> Prim("-1"),
     fieldsToValidateOnChange |-> <<<<"phases", "warm", "min_age">>,
                                    <<"phases", "cold", "min_age">>,
                                    <<"phases", "frozen", "min_age">>,
                                    <<"phases", "delete", "min_age">>>>]

\* faulty variant of coldMinAgeToMilliSeconds: the warm phase's list copied over
coldMinAgeToMilliSecondsAsWarm == warmMinAgeToMilliSeconds

coldMinAgeToMilliSeconds ==
    [defaultValue |-> Prim("-1"),
     fieldsToValidateOnChange |-> <<<<"phases", "cold", "min_age">>,
                                    <<"phases", "frozen", "min_age">>,
                                    <<"phases", "delete", "min_age">>>>]

frozenMinAgeToMilliSeconds ==
    [defaultValue |-> Prim("-1"),
     fieldsToValidateOnChange |-> <<<<"phases", "frozen", "min_age">>,
                                    <<"phases", "delete", "min_age">>>>]

deleteMinAgeToMilliSeconds ==
    [defaultValue |-> Prim("-1"),
     fieldsToValidateOnChange |-> <<<<"phases", "delete", "min_age">>>>]

\* faulty variant of searchableSnapshot: the repository field also gets a label
\* that is present on Cloud only
searchableSnapshotCloudLabel(isCloudEnabled) ==
    [repository |->
        [defaultValue |-> IF isCloudEnabled THEN CLOUD_DEFAULT_REPO
                          ELSE Prim("''"),
         label |-> IF isCloudEnabled THEN "found-snapshots" ELSE ""]]

\* _meta.searchableSnapshot
searchableSnapshot(isCloudEnabled) ==
    [repository |->
        [defaultValue |-> IF isCloudEnabled THEN CLOUD_DEFAULT_REPO
                          ELSE Prim("''")]]

\* phases.hot.actions.rollover
rollover ==
    [max_age |->
        [label |-> "i18nTexts.editPolicy.maxAgeLabel",
         validations |-> <<Validator("rolloverThresholdsValidator", ""),
                           Validator("ifExistsNumberGreaterThanZero", ""),
                           Validator("isInteger", "integerRequired")>>,
         fieldsToValidateOnChange |-> rolloverFormPaths],
     max_docs |->
        [label |-> "i18nTexts.editPolicy.maxDocsLabel",
         validations |-> <<Validator("rolloverThresholdsValidator", ""),
                           Validator("ifExistsNumberGreaterThanZero", ""),
                           Validator("isInteger", "integerRequired")>>,
         serializer |-> stringToNumber,
         fieldsToValidateOnChange |-> rolloverFormPaths],
     max_primary_shard_size |->
        [label |-> "i18nTexts.editPolicy.maxPrimaryShardSizeLabel",
         validations |-> <<Validator("rolloverThresholdsValidator", ""),
                           Validator("ifExistsNumberGreaterThanZero", "")>>,
         fieldsToValidateOnChange |-> rolloverFormPaths],
     max_primary_shard_docs |->
        [label |-> "i18nTexts.editPolicy.maxPrimaryShardDocsLabel",
         validations |-> <<Validator("rolloverThresholdsValidator", ""),
                           Validator("ifExistsNumberGreaterThanZero", ""),
                           Validator("isInteger", "integerRequired")>>,
         serializer |-> stringToNumber,
         fieldsToValidateOnChange |-> rolloverFormPaths],
     max_size |->
        [label |-> "i18nTexts.editPolicy.maxSizeLabel",
         validations |-> <<Validator("rolloverThresholdsValidator", ""),
                           Validator("ifExistsNumberGreaterThanZero", "")>>,
         fieldsToValidateOnChange |-> rolloverFormPaths]]

\* getSchema(isCloudEnabled)
getSchema(isCloudEnabled) ==
    [_meta |->
        [hot |->
            [isUsingDefaultRollover |->
                [defaultValue |-> Prim("true"),
                 label |-> "hotPhase.isUsingDefaultRollover"],
             customRollover |->
                [enabled |-> [defaultValue |-> Prim("true"),
                              label |-> "hotPhase.enableRolloverLabel"],
                 maxStorageSizeUnit |-> [defaultValue |-> Prim("'gb'")],
                 maxPrimaryShardSizeUnit |-> [defaultValue |-> Prim("'gb'")],
                 maxAgeUnit |-> [defaultValue |-> Prim("'d'")]],
             bestCompression |->
                [label |-> "i18nTexts.editPolicy.bestCompressionFieldLabel"],
             readonlyEnabled |->
                [defaultValue |-> Prim("false"),
                 label |-> "i18nTexts.editPolicy.readonlyEnabledFieldLabel"],
             shrink |->
                [isUsingShardSize |-> [defaultValue |-> Prim("false")],
                 maxPrimaryShardSizeUnits |-> [defaultValue |-> Prim("'gb'")]],
             downsample |-> getDownsampleSchema("hot")],
         warm |->
            [enabled |->
                [defaultValue |-> Prim("false"),
                 label |-> "warmPhase.activateWarmPhaseSwitchLabel"],
             minAgeUnit |-> [defaultValue |-> Prim("'d'")],
             minAgeToMilliSeconds |-> warmMinAgeToMilliSeconds,
             bestCompression |->
                [label |-> "i18nTexts.editPolicy.bestCompressionFieldLabel"],
             dataTierAllocationType |->
                [label |->
                    "i18nTexts.editPolicy.allocationTypeOptionsFieldLabel"],
             allocationNodeAttribute |->
                [label |->
                    "i18nTexts.editPolicy.allocationNodeAttributeFieldLabel"],
             readonlyEnabled |->
                [defaultValue |-> Prim("false"),
                 label |-> "i18nTexts.editPolicy.readonlyEnabledFieldLabel"],
             shrink |->
                [isUsingShardSize |-> [defaultValue |-> Prim("false")],
                 maxPrimaryShardSizeUnits |-> [defaultValue |-> Prim("'gb'")]],
             downsample |-> getDownsampleSchema("warm")],
         cold |->
            [enabled |->
                [defaultValue |-> Prim("false"),
                 label |-> "coldPhase.activateColdPhaseSwitchLabel"],
             readonlyEnabled |->
                [defaultValue |-> Prim("false"),
                 label |-> "i18nTexts.editPolicy.readonlyEnabledFieldLabel"],
             minAgeUnit |-> [defaultValue |-> Prim("'d'")],
             minAgeToMilliSeconds |-> coldMinAgeToMilliSeconds,
             dataTierAllocationType |->
                [label |->
                    "i18nTexts.editPolicy.allocationTypeOptionsFieldLabel"],
             allocationNodeAttribute |->
                [label |->
                    "i18nTexts.editPolicy.allocationNodeAttributeFieldLabel"],
             downsample |-> getDownsampleSchema("cold")],
         frozen |->
            [enabled |->
                [defaultValue |-> Prim("false"),
                 label |-> "frozenPhase.activateFrozenPhaseSwitchLabel"],
             minAgeUnit |-> [defaultValue |-> Prim("'d'")],
             minAgeToMilliSeconds |-> frozenMinAgeToMilliSeconds,
             dataTierAllocationType |->
                [label |->
                    "i18nTexts.editPolicy.allocationTypeOptionsFieldLabel"],
             allocationNodeAttribute |->
                [label |->
                    "i18nTexts.editPolicy.allocationNodeAttributeFieldLabel"]],
         delete |->
            [enabled |->
                [defaultValue |-> Prim("false"),
                 label |-> "deletePhase.activateWarmPhaseSwitchLabel"],
             minAgeUnit |-> [defaultValue |-> Prim("'d'")],
             minAgeToMilliSeconds |-> deleteMinAgeToMilliSeconds],
         searchableSnapshot |-> searchableSnapshot(isCloudEnabled)],
     phases |->
        [hot |->
            [actions |->
                [rollover |-> rollover,
                 forcemerge |-> [max_num_segments |-> maxNumSegmentsField],
                 shrink |->
                    [number_of_shards |-> numberOfShardsField,
                     max_primary_shard_size |-> shardSizeField,
                     allow_write_after_shrink |-> allowWriteAfterShrinkField],
                 set_priority |-> [priority |-> getPriorityField("hot")],
                 searchable_snapshot |-> searchableSnapshotFields]],
         warm |->
            [min_age |-> getMinAgeField("warm", Undefined),
             actions |->
                [allocate |-> [number_of_replicas |-> numberOfReplicasField],
                 shrink |->
                    [number_of_shards |-> numberOfShardsField,
                     max_primary_shard_size |-> shardSizeField,
                     allow_write_after_shrink |-> allowWriteAfterShrinkField],
                 forcemerge |-> [max_num_segments |-> maxNumSegmentsField],
                 set_priority |-> [priority |-> getPriorityField("warm")]]],
         cold |->
            [min_age |-> getMinAgeField("cold", Undefined),
             actions |->
                [allocate |-> [number_of_replicas |-> numberOfReplicasField],
                 set_priority |-> [priority |-> getPriorityField("cold")],
                 searchable_snapshot |-> searchableSnapshotFields]],
         frozen |->
            [min_age |-> getMinAgeField("frozen", Undefined),
             actions |-> [searchable_snapshot |-> searchableSnapshotFields]],
         delete |->
            [min_age |-> getMinAgeField("delete", Prim("'365'")),
             actions |->
                [wait_for_snapshot |->
                    [policy |->
                        [label |-> "waitForSnapshot.snapshotPolicyFieldLabel"]],
                 delete |->
                    [delete_searchable_snapshot |->
                        [label |-> "deleteSearchableSnapshotFieldLabel",
                         defaultValue |-> Prim("true")]]]]]]

\* the field descriptor that a path names in a schema
RECURSIVE FieldAt(_, _)
FieldAt(obj, path) ==
    IF path = <<>> THEN obj ELSE FieldAt(obj[Head(path)], Tail(path))

\* the minimum-age and downsample fields that declare the fields to validate
\* on change (the rollover thresholds re-validate rolloverFormPaths, whose
\* paths are defined outside this module)
PathsWithFieldsToValidate ==
    {<<"_meta", ph, "minAgeToMilliSeconds">> :
        ph \in {"warm", "cold", "frozen", "delete"}}
    \cup {<<"phases", ph, "min_age">> :
        ph \in {"warm", "cold", "frozen", "delete"}}
    \cup {<<"_meta", ph, "downsample", f>> :
        ph \in {"hot", "warm", "cold"},
        f \in {"enabled", "fixedIntervalSize", "fixedIntervalUnits"}}

\* isCloudEnabled: the argument the schema was built with; changed: the field
\* whose value changed last; queue: the fields still to validate for that
\* change; validated: the fields validated for it, in order, each with the
\* position of the validator that failed (0: all passed)
FormInit ==
    form = [built |-> FALSE, isCloudEnabled |-> FALSE, changed |-> <<>>,
            queue |-> <<>>, validated |-> <<>>]

\* the form is created with getSchema(isCloudEnabled)
BuildSchema(isCloudEnabled) ==
    /\ ~form.built
    /\ form' = [form EXCEPT !.built = TRUE, !.isCloudEnabled = isCloudEnabled]
    /\ UNCHANGED NotSchema

\* the value of the field at path changes: the form queues the fields the
\* schema lists for it
FieldChanges(path) ==
    /\ form.built
    /\ form.queue = <<>>
    /\ form' = [form EXCEPT
                  !.changed = path,
                  !.queue = FieldAt(getSchema(form.isCloudEnabled), path)
                                .fieldsToValidateOnChange,
                  !.validated = <<>>]
    /\ UNCHANGED NotSchema

\* the validators of the field that is validated next
QueuedValidations ==
    IF form.queue = <<>> THEN <<>>
    ELSE FieldAt(getSchema(form.isCloudEnabled), Head(form.queue)).validations

\* the form validates the next queued field: its validators run in order up
\* to the first that fails (failedAt; 0 when all pass)
ValidateNext(failedAt) ==
    /\ form.queue # <<>>
    /\ form' = [form EXCEPT
                  !.queue = Tail(@),
                  !.validated = Append(@, [path |-> Head(form.queue),
                                           failedAt |-> failedAt])]
    /\ UNCHANGED NotSchema

SchemaNext ==
    \/ \E isCloudEnabled \in BOOLEAN : BuildSchema(isCloudEnabled)
    \/ \E path \in PathsWithFieldsToValidate : FieldChanges(path)
    \/ \E failedAt \in 0..Len(QueuedValidations) : ValidateNext(failedAt)

(***************************************************************************)
(* Specifications                                                          *)
(***************************************************************************)

Init == ApmInit /\ RestInit /\ ThreatInit /\ FormInit


SpecApm == Init /\ [][ApmNext]_vars
SpecRest == Init /\ [][RestNext]_vars
SpecThreat == Init /\ [][ThreatNext]_vars
SpecSchema == Init /\ [][SchemaNext]_vars

(***************************************************************************)
(* Claims about getApmEventClient                                          *)
(***************************************************************************)

Constructed(i) == apm[i].client # <<>>
Settled(p) == p.st \in {"resolved", "rejected"}

\* C1: the APMEventClient is constructed only after both joined lookups have
\* completed: whenever invocation i has constructed its client, getApmIndices()
\* and the UI-settings lookup (includeFrozen and excludedDataTiers) have both
\* resolved before, in whichever order.
C1_ClientAfterBothLookups ==
    \A i \in Invocations :
        Constructed(i) =>
            /\ apm[i].indices.st = "resolved"
            /\ apm[i].includeFrozen.st = "resolved"
            /\ apm[i].excludedDataTiers.st = "resolved"
            /\ apm[i].uiSettings.st = "resolved"
            /\ apm[i].settled \in {<<"indices", "uiSettings">>,
                                   <<"uiSettings", "indices">>}

\* both finishing orders end in a constructed client
C1_Witness ==
    \E i, j \in Invocations :
        /\ Constructed(i) /\ apm[i].settled = <<"indices", "uiSettings">>
        /\ Constructed(j) /\ apm[j].settled = <<"uiSettings", "indices">>

\* C2 as claimed: the excluded-data-tiers lookup and the include-frozen lookup
\* are started together, so once one is in flight the other is too.
C2_SettingsLookupsStartedTogether ==
    \A i \in Invocations :
        apm[i].includeFrozen.st # "none" => apm[i].excludedDataTiers.st # "none"

\* C2 amended: getApmIndices() and the UI-settings lookup are started
\* together, but inside the UI-settings lookup the two settings are read one
\* after the other: the excluded-data-tiers lookup is started only once the
\* include-frozen lookup has resolved.
C2_SettingsLookupsSequential ==
    \A i \in Invocations :
        /\ apm[i].excludedDataTiers.st # "none"
              => apm[i].includeFrozen.st = "resolved"
        /\ apm[i].indices.st # "none" <=> apm[i].includeFrozen.st # "none"
        /\ apm[i].calls.indices = apm[i].calls.includeFrozen

\* getApmIndices() still in flight while the second setting is being read
C2_Witness ==
    \E i \in Invocations :
        /\ apm[i].indices.st = "pending"
        /\ apm[i].includeFrozen.st = "resolved"
        /\ apm[i].excludedDataTiers.st = "pending"

Lookups(r) == <<r.core, r.indices, r.includeFrozen, r.excludedDataTiers>>
SomeLookupRejected(r) == \E k \in 1..4 : Lookups(r)[k].st = "rejected"
NoRetry(r) ==
    /\ r.calls.core <= 1 /\ r.calls.indices <= 1
    /\ r.calls.includeFrozen <= 1 /\ r.calls.excludedDataTiers <= 1

\* the failure of the joined promise that rejected first
FirstRejection(r) ==
    LET joined(name) == IF name = "indices" THEN r.indices ELSE r.uiSettings
        k == CHOOSE n \in 1..Len(r.settled) :
                 /\ joined(r.settled[n]).st = "rejected"
                 /\ \A m \in 1..(n - 1) : joined(r.settled[m]).st # "rejected"
    IN IF r.core.st = "rejected" THEN r.core.val ELSE joined(r.settled[k]).val

\* C4 as claimed: whichever lookup rejects, the function has rejected with
\* that lookup's failure when it is done.
C4_RejectsWithEveryFailure ==
    \A i \in Invocations :
        apm[i].pc = "done" =>
            \A k \in 1..4 :
                Lookups(apm[i])[k].st = "rejected"
                    => apm[i].result = Rejected(Lookups(apm[i])[k].val)

\* C4 amended: if a lookup rejects before the function is done, the function
\* rejects with the failure of the lookup that rejected first (a later
\* rejection of the other joined lookup is dropped), no client is constructed,
\* and no lookup is issued twice or replaced by a fallback value.
C4_RejectsWithFirstFailure ==
    \A i \in Invocations :
        /\ NoRetry(apm[i])
        /\ SomeLookupRejected(apm[i]) =>
              /\ ~Constructed(i)
              /\ apm[i].result.st # "resolved"
              /\ apm[i].pc = "awaitAll" => JoinRejected(apm[i])
              /\ apm[i].pc = "done"
                    => apm[i].result = Rejected(FirstRejection(apm[i]))

\* both joined lookups rejected, and the function rejected with the first
C4_Witness ==
    \E i \in Invocations :
        /\ apm[i].pc = "done"
        /\ apm[i].indices.st = "rejected"
        /\ apm[i].includeFrozen.st = "rejected"
        /\ apm[i].settled = <<"uiSettings", "indices">>
        /\ apm[i].result = Rejected(Ref("errIncludeFrozen", i))

\* the objects among the values passed to a client's constructor (debug and
\* includeFrozen are booleans)
ConstructorObjects(c) ==
    {c.esClient, c.request, c.indices, c.options.excludedDataTiers,
     c.options.inspectableEsQueriesMap}
SharedObjects(i, j) ==
    ConstructorObjects(apm[i].client[1]) \cap ConstructorObjects(apm[j].client[1])

\* C5 as claimed: two clients hold no common object among their constructor
\* values.
C5_NoSharedObject ==
    \A i, j \in Invocations :
        i # j /\ Constructed(i) /\ Constructed(j) => SharedObjects(i, j) = {}

\* C5 amended: two clients built for different requests (own context, own
\* lookup answers) hold exactly one common object, the module-level
\* inspectableEsQueriesMap that every invocation passes by reference.
C5_OnlyInspectableMapShared ==
    \A i, j \in Invocations :
        i # j /\ Constructed(i) /\ Constructed(j)
            => SharedObjects(i, j) = {inspectableEsQueriesMap}

C5_Witness ==
    \E i, j \in Invocations : i # j /\ Constructed(i) /\ Constructed(j)

\* C15: when several invocations for different requests are in flight and
\* their lookups complete in any interleaving, each constructed client carries
\* only its own invocation's values: its own request, its own context's
\* current-user Elasticsearch client, its own _inspect flag as debug, and the
\* indices, includeFrozen and excludedDataTiers that its own lookups returned,
\* never an object of another invocation.
C15_ClientCarriesOwnValues ==
    \A i \in Invocations :
        Constructed(i) =>
            LET c == apm[i].client[1]
            IN /\ c.request = request(i)
               /\ c.esClient = context(i).esClient
               /\ c.debug = apm[i].debug
               /\ c.indices = apm[i].indices.val
               /\ c.indices = IndicesValue(i)
               /\ c.options.includeFrozen = apm[i].includeFrozen.val
               /\ c.options.excludedDataTiers = apm[i].excludedDataTiers.val
               /\ c.options.excludedDataTiers = DataTiersValue(i)
               /\ \A j \in Invocations \ {i} :
                      /\ c.request # request(j)
                      /\ c.esClient # context(j).esClient
                      /\ c.indices # IndicesValue(j)
                      /\ c.options.excludedDataTiers # DataTiersValue(j)

\* two clients built from invocations whose flags and settings differ, the
\* first with getApmIndices() answering first, the second with it answering
\* last
C15_Witness ==
    \E i, j \in Invocations :
        /\ i # j /\ Constructed(i) /\ Constructed(j)
        /\ apm[i].client[1].debug # apm[j].client[1].debug
        /\ apm[i].client[1].options.includeFrozen
               # apm[j].client[1].options.includeFrozen
        /\ apm[i].settled = <<"indices", "uiSettings">>
        /\ apm[j].settled = <<"uiSettings", "indices">>

(***************************************************************************)
(* Claims about the alert REST wrappers                                    *)
(***************************************************************************)

Called(k) == rest[k].st # "idle"
TheFetch(k) == rest[k].fetches[1]

\* C3: every wrapper makes exactly one http.fetch call per invocation and its
\* outcome is that call's outcome: pending while the transport is pending,
\* resolved with the transport's value or rejected with its rejection.
C3_OneFetchSameOutcome ==
    \A k \in RestCalls :
        /\ Called(k) =>
              /\ Len(rest[k].fetches) = 1
              /\ rest[k].result = rest[k].transport
        /\ rest[k].st = "settled" =>
              rest[k].result.st \in {"resolved", "rejected"}

\* one call resolved with the transport's response, another rejected with the
\* transport's failure
C3_Witness ==
    \E k, m \in RestCalls :
        /\ rest[k].st = "settled" /\ rest[k].fn = "fetchQueryAlerts"
        /\ rest[k].result = Resolved(Ref("response", k))
        /\ rest[m].st = "settled" /\ rest[m].fn = "getCaseIdsFromAlertId"
        /\ rest[m].result = Rejected(Ref("error", m))

\* C6: every wrapper that accepts a signal hands that same signal, unchanged,
\* to its single transport call, and a request is cancelled only when the
\* caller aborted that signal: no wrapper aborts or times out on its own.
C6_SignalPassedThrough ==
    \A k \in RestCalls :
        Called(k) /\ rest[k].fn \in SignalWrappers =>
            /\ "signal" \in DOMAIN TheFetch(k).options
            /\ TheFetch(k).options.signal = rest[k].args.signal
            /\ rest[k].aborted /\ rest[k].st = "pending" => ENABLED TransportAborts(k)
            /\ rest[k].result = Rejected(Prim("AbortError")) =>
                  /\ rest[k].args.signal.kind = "AbortSignal"
                  /\ rest[k].aborted

\* the caller aborted its signal and the transport cancelled the request
C6_Witness ==
    \E k \in RestCalls :
        /\ rest[k].fn = "getHostMetadata"
        /\ rest[k].aborted
        /\ TheFetch(k).options.signal = Ref("AbortSignal", k)
        /\ rest[k].result = Rejected(Prim("AbortError"))

\* C7: both bulk status updates POST to the signals-status endpoint with
\* version '2023-10-31'; by query the body has exactly the keys conflicts
\* ('proceed'), status and query; by ids it has exactly the keys status and
\* signal_ids (the given ids in the given order) and no conflicts key.
C7_StatusUpdateBodies ==
    \A k \in RestCalls :
        Called(k) /\ rest[k].fn \in {"updateAlertStatusByQuery",
                                     "updateAlertStatusByIds"} =>
            LET f == TheFetch(k)
                a == rest[k].args
                body == f.options.body.of
            IN /\ f.path = Route("DETECTION_ENGINE_SIGNALS_STATUS_URL")
               /\ f.options.method = "POST"
               /\ f.options.version = "2023-10-31"
               /\ f.options.body.kind = "json"
               /\ GetValue(body, "status") = a.status
               /\ rest[k].fn = "updateAlertStatusByQuery" =>
                     /\ KeySet(body) = {"conflicts", "status", "query"}
                     /\ Len(body.members) = 3
                     /\ GetValue(body, "conflicts") = Prim("proceed")
                     /\ GetValue(body, "query") = a.query
               /\ rest[k].fn = "updateAlertStatusByIds" =>
                     /\ KeySet(body) = {"status", "signal_ids"}
                     /\ Len(body.members) = 2
                     /\ GetValue(body, "signal_ids").items = a.signalIds.items

\* both updates have been sent, the second with two ids
C7_Witness ==
    \E k, m \in RestCalls :
        /\ rest[k].fn = "updateAlertStatusByQuery" /\ Called(k)
        /\ rest[m].fn = "updateAlertStatusByIds" /\ Called(m)
        /\ rest[m].args.signalIds.items = <<"id2", "id1">>
        /\ TheFetch(k).path = TheFetch(m).path

\* C8: getCaseIdsFromAlertId sends a GET to the cases-for-alert URL of the
\* given alertId; the query has an owner entry, equal to the given list, iff
\* that list is non-empty, and is the empty object otherwise.
C8_OwnerFilterOnlyWhenNonEmpty ==
    \A k \in RestCalls :
        Called(k) /\ rest[k].fn = "getCaseIdsFromAlertId" =>
            LET f == TheFetch(k)
                a == rest[k].args
            IN /\ f.path = getCasesFromAlertsUrl(a.alertId)
               /\ f.options.method = "get"
               /\ "owner" \in KeySet(f.options.query) <=> Len(a.owner.items) > 0
               /\ Len(a.owner.items) > 0 =>
                     /\ Keys(f.options.query) = <<"owner">>
                     /\ GetValue(f.options.query, "owner") = a.owner
               /\ Len(a.owner.items) = 0 => f.options.query = Object(<<>>)

\* one call with an empty owner list, one with a non-empty one
C8_Witness ==
    \E k, m \in RestCalls :
        /\ rest[k].fn = "getCaseIdsFromAlertId" /\ Called(k)
        /\ rest[k].args.owner.items = <<>>
        /\ rest[m].fn = "getCaseIdsFromAlertId" /\ Called(m)
        /\ Len(rest[m].args.owner.items) = 2

(***************************************************************************)
(* Claims about ThreatMatchInput                                           *)
(***************************************************************************)

\* every change has been rendered and the effect of that render has run
ThreatSettled == tm.mounted /\ ~tm.effectPending /\ Current = tm.rendered

\* C9: when onValidityChange is provided, once the changes to the threat
\* mapping's validity and to the query bar's reported validity have been
\* rendered, the most recent value passed to onValidityChange is (threat
\* mapping not invalid) AND (last validity reported by the query bar); while
\* onValidityChange is not provided nothing is called.
C9_CombinedValidityForwarded ==
    /\ ThreatSettled /\ tm.prop.kind # "undefined" =>
          tm.lastCall = <<[cb |-> tm.prop,
                           value |-> ~tm.fieldInvalid /\ tm.state]>>
    /\ ~tm.everProvided => tm.lastCall = <<>>
    /\ tm.lastCall # <<>> => tm.lastCall[1].cb.kind # "undefined"

\* valid mapping, valid query bar, and TRUE has been passed upward
C9_Witness ==
    /\ ThreatSettled
    /\ ~tm.fieldInvalid /\ tm.state
    /\ tm.lastCall = <<[cb |-> Ref("onValidityChange", 1), value |-> TRUE]>>

\* C16: the component starts with the threat query bar counted as not
\* valid: from mount until the query bar first reports true through its
\* onValidityChange (setIsThreatIndexPatternValid), every value passed to the
\* parent's onValidityChange is false, even when the threat mapping is valid.
C16_FalseUntilQueryBarReportsTrue ==
    ~tm.reportedTrue =>
        /\ ~tm.state
        /\ ~tm.rendered.isThreatIndexPatternValid
        /\ tm.lastCall # <<>> => tm.lastCall[1].value = FALSE

\* the threat mapping is valid, the query bar has reported nothing but false,
\* and the effect has passed false to the parent
C16_Witness ==
    /\ ThreatSettled
    /\ ~tm.fieldInvalid
    /\ ~tm.reportedTrue
    /\ tm.lastCall = <<[cb |-> Ref("onValidityChange", 1), value |-> FALSE]>>

(***************************************************************************)
(* Claims about the lifecycle-policy form schema                           *)
(***************************************************************************)

\* the phases that have a minimum age, in phase order
TimingPhases == <<"warm", "cold", "frozen", "delete">>
PhaseIndex(order, ph) == CHOOSE n \in 1..Len(order) : order[n] = ph
Range(seq) == {seq[n] : n \in 1..Len(seq)}

\* C10: minimum-age re-validation only runs forward through the phase order
\* warm < cold < frozen < delete: a change of _meta.P.minAgeToMilliSeconds
\* triggers validation of phases.Q.min_age for exactly the phases Q at or
\* after P, in phase order, and for no phase before P.
C10_MinAgeRevalidationForward ==
    /\ form.built =>
          \A n \in 1..Len(TimingPhases) :
              LET list == FieldAt(getSchema(form.isCloudEnabled),
                                  <<"_meta", TimingPhases[n],
                                    "minAgeToMilliSeconds">>)
                              .fieldsToValidateOnChange
              IN /\ Len(list) = Len(TimingPhases) - n + 1
                 /\ \A m \in 1..Len(list) :
                        list[m] = <<"phases", TimingPhases[n + m - 1], "min_age">>
    /\ \A n \in 1..Len(TimingPhases) :
          form.changed = <<"_meta", TimingPhases[n], "minAgeToMilliSeconds">>
              => \A v \in Range(form.validated) :
                     /\ v.path[1] = "phases" /\ v.path[3] = "min_age"
                     /\ PhaseIndex(TimingPhases, v.path[2]) >= n
    /\ \A n \in 1..Len(TimingPhases) :
          /\ form.changed = <<"_meta", TimingPhases[n], "minAgeToMilliSeconds">>
          /\ form.queue = <<>>
          => [m \in 1..Len(form.validated) |-> form.validated[m].path[2]]
                 = SubSeq(TimingPhases, n, Len(TimingPhases))

\* the cold phase's minimum age changed and cold, frozen and delete have been
\* validated, warm has not
C10_Witness ==
    /\ form.changed = <<"_meta", "cold", "minAgeToMilliSeconds">>
    /\ form.queue = <<>>
    /\ Len(form.validated) = 3
    /\ form.validated[1].path = <<"phases", "cold", "min_age">>
    /\ form.validated[3].path = <<"phases", "delete", "min_age">>

\* the phases that can downsample, in phase order
DownsamplePhases == <<"hot", "warm", "cold">>
IntervalSizePath(ph) == <<"_meta", ph, "downsample", "fixedIntervalSize">>

\* the fixedIntervalSize paths of the phases of DownsamplePhases from position
\* from on, in phase order
IntervalSizePathsFrom(from) ==
    [m \in 1..(Len(DownsamplePhases) - from + 1) |->
        IntervalSizePath(DownsamplePhases[from + m - 1])]

\* C11: downsample re-validation only runs forward through the phase order
\* hot < warm < cold: a change of _meta.p.downsample.fixedIntervalSize or
\* .fixedIntervalUnits triggers validation of _meta.q.downsample
\* .fixedIntervalSize for exactly the phases q at or after p, a change of
\* _meta.p.downsample.enabled for exactly the phases q strictly after p (none
\* for cold), in phase order.
C11_DownsampleRevalidationForward ==
    /\ form.built =>
          \A n \in 1..Len(DownsamplePhases) :
              LET d == getSchema(form.isCloudEnabled)
                           ._meta[DownsamplePhases[n]].downsample
              IN /\ d.fixedIntervalSize.fieldsToValidateOnChange
                        = IntervalSizePathsFrom(n)
                 /\ d.fixedIntervalUnits.fieldsToValidateOnChange
                        = IntervalSizePathsFrom(n)
                 /\ d.enabled.fieldsToValidateOnChange
                        = IntervalSizePathsFrom(n + 1)
    /\ \A n \in 1..Len(DownsamplePhases) :
          \A f \in {"enabled", "fixedIntervalSize", "fixedIntervalUnits"} :
              form.changed = <<"_meta", DownsamplePhases[n], "downsample", f>>
                  => LET from == IF f = "enabled" THEN n + 1 ELSE n
                     IN /\ \A v \in Range(form.validated) :
                               \E m \in from..Len(DownsamplePhases) :
                                   v.path = IntervalSizePath(DownsamplePhases[m])
                        /\ form.queue = <<>> =>
                               [m \in 1..Len(form.validated) |->
                                   form.validated[m].path]
                                   = IntervalSizePathsFrom(from)

\* the warm phase's downsample switch changed and only the cold phase's
\* interval has been validated
C11_Witness ==
    /\ form.changed = <<"_meta", "warm", "downsample", "enabled">>
    /\ form.queue = <<>>
    /\ Len(form.validated) = 1
    /\ form.validated[1].path = IntervalSizePath("cold")

\* the validator of the field at path that failed in the validation v (the
\* validators before it passed, those after it did not run)
FailedValidator(v) ==
    FieldAt(getSchema(form.isCloudEnabled), v.path).validations[v.failedAt]

\* C12: the cross-phase validators are attached to the right phase and run
\* last: for every phase P of warm, cold, frozen, delete the validators of
\* phases.P.min_age are, in order, required, non-negative number, integer,
\* minAgeGreaterThanPreviousPhase(P); for every phase p of hot, warm, cold
\* those of _meta.p.downsample.fixedIntervalSize are required, number greater
\* than zero, integer, downsampleIntervalMultipleOfPreviousOne(p); so a
\* validation fails on the cross-phase validator of the field's own phase
\* exactly when it fails at the fourth validator.
C12_CrossPhaseValidatorsLast ==
    /\ form.built =>
          LET schema == getSchema(form.isCloudEnabled)
          IN /\ \A n \in 1..Len(TimingPhases) :
                    schema.phases[TimingPhases[n]].min_age.validations
                        = <<Validator("emptyField", "numberRequired"),
                            Validator("ifExistsNumberNonNegative", ""),
                            Validator("isInteger", "integerRequired"),
                            Validator("minAgeGreaterThanPreviousPhase",
                                      TimingPhases[n])>>
             /\ \A n \in 1..Len(DownsamplePhases) :
                    schema._meta[DownsamplePhases[n]].downsample
                          .fixedIntervalSize.validations
                        = <<Validator("emptyField", "numberRequired"),
                            Validator("ifExistsNumberGreaterThanZero", ""),
                            Validator("isInteger", "integerRequired"),
                            Validator("downsampleIntervalMultipleOfPreviousOne",
                                      DownsamplePhases[n])>>
    /\ \A v \in Range(form.validated) :
          v.failedAt # 0 =>
              LET crossPhase ==
                      IF v.path[1] = "phases"
                      THEN Validator("minAgeGreaterThanPreviousPhase", v.path[2])
                      ELSE Validator("downsampleIntervalMultipleOfPreviousOne",
                                     v.path[2])
              IN FailedValidator(v) = crossPhase <=> v.failedAt = 4

\* after a change of the cold phase's minimum age, phases.cold.min_age passed
\* and phases.frozen.min_age failed on its fourth, cross-phase validator
C12_Witness ==
    /\ form.changed = <<"_meta", "cold", "minAgeToMilliSeconds">>
    /\ Len(form.validated) >= 2
    /\ form.validated[1] = [path |-> <<"phases", "cold", "min_age">>,
                            failedAt |-> 0]
    /\ form.validated[2] = [path |-> <<"phases", "frozen", "min_age">>,
                            failedAt |-> 4]
    /\ FailedValidator(form.validated[2])
           = Validator("minAgeGreaterThanPreviousPhase", "frozen")

\* the default repository of a schema
RepositoryDefault(schema) ==
    schema._meta.searchableSnapshot.repository.defaultValue

\* C13: the only input-dependent part of the schema is the repository
\* default: the schema built for isCloudEnabled and the schema for the
\* opposite input differ in _meta.searchableSnapshot.repository.defaultValue,
\* which is CLOUD_DEFAULT_REPO on Cloud and the empty string otherwise, and
\* become equal (every other default, label, validator list, serializer and
\* re-validation list) once that one value is replaced.
C13_OnlyRepositoryDefaultDependsOnCloud ==
    form.built =>
        LET mine == getSchema(form.isCloudEnabled)
            other == getSchema(~form.isCloudEnabled)
        IN /\ RepositoryDefault(mine) = IF form.isCloudEnabled
                                        THEN CLOUD_DEFAULT_REPO
                                        ELSE Prim("''")
           /\ RepositoryDefault(mine) # RepositoryDefault(other)
           /\ mine # other
           /\ [mine EXCEPT !._meta.searchableSnapshot.repository.defaultValue
                               = RepositoryDefault(other)] = other

\* a form built on Cloud: its repository default is CLOUD_DEFAULT_REPO, that
\* of the schema for the other input is the empty string
C13_Witness ==
    /\ form.built /\ form.isCloudEnabled
    /\ RepositoryDefault(getSchema(form.isCloudEnabled)) = CLOUD_DEFAULT_REPO
    /\ RepositoryDefault(getSchema(~form.isCloudEnabled)) = Prim("''")

MinAgePaths == {<<"phases", TimingPhases[n], "min_age">> :
                   n \in 1..Len(TimingPhases)}
MinAgeToMilliSecondsPaths ==
    {<<"_meta", TimingPhases[n], "minAgeToMilliSeconds">> :
        n \in 1..Len(TimingPhases)}

\* C14: editing a minimum-age value does not by itself trigger any
\* validation: for every phase P of warm, cold, frozen, delete the list of
\* fields to validate when phases.P.min_age changes is empty, so after such a
\* change nothing is queued or validated, and a min_age field is validated on
\* a change only when the changed field is a minAgeToMilliSeconds field.
C14_MinAgeChangeValidatesNothing ==
    /\ form.built =>
          \A path \in MinAgePaths :
              FieldAt(getSchema(form.isCloudEnabled), path)
                  .fieldsToValidateOnChange = <<>>
    /\ form.changed \in MinAgePaths =>
          form.queue = <<>> /\ form.validated = <<>>
    /\ \A v \in Range(form.validated) \cup Range([m \in 1..Len(form.queue) |->
                                                   [path |-> form.queue[m]]]) :
          v.path \in MinAgePaths => form.changed \in MinAgeToMilliSecondsPaths

\* the frozen phase's minimum age was edited: nothing is queued and nothing
\* has been validated for that change
C14_Witness ==
    /\ form.changed = <<"phases", "frozen", "min_age">>
    /\ form.queue = <<>>
    /\ form.validated = <<>>

====
